---- MODULE Spec2Model ----
(***************************************************************************)
(* Model of src/app/server.js (cloud-vote-app): the vote write path        *)
(* (POST /vote), the live aggregation read path (GET /api/live-data) and   *)
(* the shared relational store they run against, with several replicas     *)
(* (pods) serving requests concurrently.                                    *)
(*                                                                         *)
(* A request handler is modelled at the granularity of its suspension       *)
(* points: the synchronous part up to the first await is one action, each   *)
(* statement executed by the store is one action, and each continuation     *)
(* that runs after a promise settles is one action.                         *)
(*                                                                         *)
(* Store assumptions (the store is not part of the source): a statement     *)
(* that reports an error has changed nothing; ids are allocated when a row  *)
(* is inserted (AUTO_INCREMENT); created_at is the store clock read when    *)
(* the INSERT statement starts executing.                                   *)
(*                                                                         *)
(* Pool assumptions (mysql2 is not part of the source): the pool created    *)
(* from dbConfig behaves as mysql2's Pool does under these options. It      *)
(* opens connections on demand up to connectionLimit, queues a query when   *)
(* all are in use (waitForConnections, queueLimit 0), releases a            *)
(* connection when its statement has ended, and applies connectTimeout to   *)
(* the establishing of a connection only. SpecPool studies the pool of one  *)
(* replica by itself.                                                       *)
(***************************************************************************)
EXTENDS Integers, Sequences, FiniteSets

\* ------------------------------------------------------------------ bounds
\* Requests (POST /vote and GET /api/live-data together) that arrive in a
\* run; any number of them may be in progress at once.
MaxReq == 2

\* ------------------------------------------------------- program constants
\* LIMIT of the audit tail query.
TailLimit == 50

\* The value of a missing property / an absent header in JavaScript.
Undefined == "undefined"

\* The replicas; POD_ID of each is its host name.
Pods == {"pod-a", "pod-b"}

\* The replica the k-th request of a run is routed to: the replicas take
\* turns.
RoutedTo(k) == IF k % 2 = 1 THEN "pod-a" ELSE "pod-b"

\* The fixed candidate set of the validation.
Candidates == {"aws", "azure"}

\* Values of req.body.candidate tried as input.
CandidateInputs == {"aws", "azure", "gcp", Undefined}

\* Where a request comes from, as the handler sees it: the header
\* req.headers['x-forwarded-for'] and req.socket.remoteAddress. A string is
\* the sequence of its tokens, and <<>> an absent header or an undefined
\* address. Tried as input: a request through a proxy, and a request with no
\* header whose socket is already destroyed (remoteAddress is then undefined).
OriginInputs ==
    { [forwarded |-> <<"203.0.113.7", ",", "10.0.0.1">>, remote |-> <<"10.0.0.1">>],
      [forwarded |-> <<>>, remote |-> <<>>] }

\* Rows already in the store when the run starts: none, or one short of the
\* tail limit (each the trace of an earlier, completed vote).
PreloadInputs == {0, TailLimit - 1}

VARIABLES
    votes,        \* table votes: sequence of rows in insertion (id) order
    system_logs,  \* table system_logs: sequence of rows in insertion (id) order
    now,          \* the store's clock
    reqs,         \* the requests that have arrived, in arrival order
    console,      \* what the replicas wrote with console.error
    pool          \* the connection pool of one replica

vars == <<votes, system_logs, now, reqs, console, pool>>

\* --------------------------------------------------------------- helpers
Min(a, b) == IF a < b THEN a ELSE b

\* String.prototype.toUpperCase on the candidate identifiers.
ToUpperCase(c) ==
    CASE c = "aws" -> "AWS"
      [] c = "azure" -> "AZURE"
      [] c = "gcp" -> "GCP"
      [] OTHER -> c

\* s.split(',')[0]: the part of s before its first comma. A string is the
\* sequence of its tokens, the comma being a token of its own.
RECURSIVE FirstPart(_)
FirstPart(s) ==
    IF s = <<>> \/ Head(s) = "," THEN <<>>
    ELSE <<Head(s)>> \o FirstPart(Tail(s))

\* req.headers['x-forwarded-for'] || req.socket.remoteAddress. An absent
\* header and an undefined address are both <<>>; neither can be the empty
\* string, so <<>> as the result stands for undefined.
ClientIp(forwarded, remote) == IF forwarded # <<>> THEN forwarded ELSE remote

\* Mutant of ValidCandidate: any candidate that is present passes.
ValidCandidate_m(candidate) == candidate # Undefined

\* ['aws', 'azure'].includes(candidate)
ValidCandidate(candidate) == candidate \in Candidates

\* clientIp.split(',') throws a TypeError when clientIp is undefined.
SplitThrows(clientIp) == clientIp = <<>>

\* `Vote confirmed for ${candidate.toUpperCase()} via ${clientIp.split(',')[0]}`
NoMsg == [text |-> "", candidate |-> "", via |-> <<>>]
LogMsg(candidate, clientIp) ==
    [text |-> "Vote confirmed for", candidate |-> ToUpperCase(candidate),
     via |-> FirstPart(clientIp)]

\* ------------------------------------------------------------- responses
ZeroVotes == [aws |-> 0, azure |-> 0, total |-> 0]

NoResponse ==
    [code |-> 0, status |-> "", message |-> "", error |-> "", pod_id |-> "",
     data |-> FALSE, votes |-> ZeroVotes, logs |-> <<>>]

\* res.status(400).json({ status: 'error', message: 'Invalid candidate' })
InvalidCandidateResponse ==
    [NoResponse EXCEPT !.code = 400, !.status = "error",
                       !.message = "Invalid candidate"]

\* res.json({ status: 'success' })
SuccessResponse == [NoResponse EXCEPT !.code = 200, !.status = "success"]

\* res.status(500).json({ status: 'error', message: 'Transaction failed' })
TransactionFailedResponse ==
    [NoResponse EXCEPT !.code = 500, !.status = "error",
                       !.message = "Transaction failed"]

\* res.status(500).json({ error: "Database connectivity interruption" })
ConnectivityResponse ==
    [NoResponse EXCEPT !.code = 500,
                       !.error = "Database connectivity interruption"]

\* ------------------------------------------------------------ the store
\* INSERT INTO votes (candidate) VALUES (?): the next id, the candidate.
\* req is not a column: it names the request the row came from.
VoteRow(rows, candidate, req) ==
    [id |-> Len(rows) + 1, candidate |-> candidate, req |-> req]

\* Mutant of LogRow: the parameters are bound in the wrong order, the
\* replica's identity goes to event_type and the tag to pod_id.
LogRow_m(rows, params, created_at, req) ==
    [id |-> Len(rows) + 1, event_type |-> params.pod_id,
     message |-> params.message, pod_id |-> params.event_type,
     created_at |-> created_at, req |-> req]

\* INSERT INTO system_logs (event_type, message, pod_id) VALUES (?, ?, ?):
\* the next id, the three parameters, created_at as read at statement start.
LogRow(rows, params, created_at, req) ==
    [id |-> Len(rows) + 1, event_type |-> params.event_type,
     message |-> params.message, pod_id |-> params.pod_id,
     created_at |-> created_at, req |-> req]

\* Mutant of GroupCount: the GROUP BY is missing, one row counts every vote.
GroupCount_m(rows) ==
    IF rows = <<>> THEN {}
    ELSE {[candidate |-> rows[1].candidate, count |-> Len(rows)]}

\* SELECT candidate, COUNT(*) as count FROM votes GROUP BY candidate
GroupCount(rows) ==
    { [candidate |-> c,
       count |-> Cardinality({k \in DOMAIN rows : rows[k].candidate = c})] :
      c \in {rows[k].candidate : k \in DOMAIN rows} }

\* Mutant of TailQuery: ORDER BY id without DESC.
TailQuery_m(rows) ==
    [k \in 1..Min(Len(rows), TailLimit) |-> rows[k]]

\* SELECT * FROM system_logs ORDER BY id DESC LIMIT 50
\* (rows is kept in id order, so descending id is the reverse of rows).
TailQuery(rows) ==
    [k \in 1..Min(Len(rows), TailLimit) |-> rows[Len(rows) - k + 1]]

\* votes = { aws: 0, azure: 0, total: 0 };
\* voteResults.forEach(r => votes[r.candidate] = r.count);
\* votes.total = votes.aws + votes.azure
CountOf(voteResults, c) ==
    IF \E r \in voteResults : r.candidate = c
    THEN (CHOOSE r \in voteResults : r.candidate = c).count
    ELSE 0

\* Mutant of ProcessVotes: the total is computed before the counts are filled in.
ProcessVotes_m(voteResults) ==
    [aws |-> CountOf(voteResults, "aws"),
     azure |-> CountOf(voteResults, "azure"),
     total |-> 0]

ProcessVotes(voteResults) ==
    [aws |-> CountOf(voteResults, "aws"),
     azure |-> CountOf(voteResults, "azure"),
     total |-> CountOf(voteResults, "aws") + CountOf(voteResults, "azure")]

\* Mutant of LiveDataResponse: a tally query that returned no row is taken
\* for a failure.
LiveDataResponse_m2(pod, voteResults, logResults) ==
    IF voteResults = {} THEN ConnectivityResponse
    ELSE [NoResponse EXCEPT !.code = 200, !.status = "healthy", !.pod_id = pod,
                            !.data = TRUE, !.votes = ProcessVotes(voteResults),
                            !.logs = logResults]

\* Mutant of LiveDataResponse: total is the number of audit entries returned,
\* not the number of votes counted.
LiveDataResponse_m1(pod, voteResults, logResults) ==
    [NoResponse EXCEPT !.code = 200, !.status = "healthy", !.pod_id = pod,
                       !.data = TRUE,
                       !.votes = [ProcessVotes(voteResults) EXCEPT
                                     !.total = Len(logResults)],
                       !.logs = logResults]

\* res.json({ meta: { pod_id, status: 'healthy' }, data: { votes, logs } })
LiveDataResponse(pod, voteResults, logResults) ==
    [NoResponse EXCEPT !.code = 200, !.status = "healthy", !.pod_id = pod,
                       !.data = TRUE, !.votes = ProcessVotes(voteResults),
                       !.logs = logResults]

\* The rows of k earlier votes, each acknowledged and audited.
PreloadCandidate(k) == IF k % 2 = 1 THEN "aws" ELSE "azure"

PreloadVotes(n) ==
    [k \in 1..n |-> [id |-> k, candidate |-> PreloadCandidate(k), req |-> 0 - k]]

PreloadLogs(n) ==
    [k \in 1..n |->
        [id |-> k, event_type |-> "VOTE_TX",
         message |-> LogMsg(PreloadCandidate(k), <<"10.0.0.1">>),
         pod_id |-> "pod-a", created_at |-> 0, req |-> 0 - k]]

\* ------------------------------------------------------------- requests
NoParams == [event_type |-> "", message |-> NoMsg, pod_id |-> ""]

\* A request as its handler sees it: the inputs, the handler's position (pc),
\* its two queries (q1: the vote INSERT or the tally SELECT; q2: the audit
\* INSERT or the tail SELECT), the parameters and the statement clock of the
\* audit INSERT, the results of the two SELECTs, and the response sent.
\* Three fields are not program state, they record what a snapshot request
\* could observe: acked, the votes acknowledged when the request came;
\* votesAtStart, the number of vote rows when it came; logsAtTally, the
\* number of audit rows when its tally query executed.
NewRequest(kind, pod, candidate, clientIp) ==
    [kind |-> kind, pod |-> pod, candidate |-> candidate,
     clientIp |-> clientIp, pc |-> "await", q1 |-> "pending", q2 |-> "none",
     params |-> NoParams, ts |-> 0, voteResults |-> {}, logResults |-> <<>>,
     res |-> NoResponse, acked |-> {}, votesAtStart |-> 0, logsAtTally |-> 0]

\* The request still has a step to take: its handler awaits, or its detached
\* audit append is in flight.
IsOpen(r) == r.pc = "await" \/ (r.kind = "vote" /\ r.q2 \in {"pending", "begun"})

Acknowledged ==
    {i \in DOMAIN reqs : reqs[i].kind = "vote" /\ reqs[i].res = SuccessResponse}

\* ----------------------------------------------------------------- pool
\* connectionLimit of dbConfig: the connections one replica's pool may hold.
connectionLimit == 10

\* The queries one replica submits in a run of the pool.
MaxQueries == 12

\* mysql.createPool(dbConfig): no connection is opened before the first
\* query. The pool of one replica, by numbers, its queries being alike: the
\* connections it holds (all), those of them that are free, the queries
\* whose connection is being established (connecting) or runs their
\* statement (running), the queries waiting for a connection (queue), and
\* the queries settled (resolved, rejected). enqueued is not program state:
\* the queries that ever waited.
NewPool ==
    [all |-> 0, free |-> 0, connecting |-> 0, running |-> 0, queue |-> 0,
     resolved |-> 0, rejected |-> 0, enqueued |-> 0]

Init ==
    /\ pool = NewPool
    /\ \E n \in PreloadInputs :
          /\ votes = PreloadVotes(n)
          /\ system_logs = PreloadLogs(n)
    /\ now = 0
    /\ reqs = <<>>
    /\ console = {}

\* ------------------------------------------------------------ POST /vote
\* app.post('/vote'): the handler up to its first await.
PostVote(pod, candidate, origin) ==
    /\ pod = RoutedTo(Len(reqs) + 1)
    /\ LET r == NewRequest("vote", pod, candidate,
                           ClientIp(origin.forwarded, origin.remote))
       IN  IF ~ValidCandidate(candidate)
           THEN reqs' = Append(reqs, [r EXCEPT !.pc = "done", !.q1 = "none",
                                               !.res = InvalidCandidateResponse])
           ELSE reqs' = Append(reqs, r)
    /\ UNCHANGED <<votes, system_logs, now, console>>

\* Mutant of ExecVoteInsert: the INSERT ignores a vote when a request of the
\* same origin has already a row for the candidate (one vote per origin).
ExecVoteInsert_m(i) ==
    /\ reqs[i].kind = "vote"
    /\ reqs[i].q1 = "pending"
    /\ votes' = IF \E k \in DOMAIN votes :
                       /\ votes[k].req > 0
                       /\ votes[k].candidate = reqs[i].candidate
                       /\ reqs[votes[k].req].clientIp = reqs[i].clientIp
                THEN votes
                ELSE Append(votes, VoteRow(votes, reqs[i].candidate, i))
    /\ reqs' = [reqs EXCEPT ![i].q1 = "ok"]
    /\ UNCHANGED <<system_logs, now, console>>

\* The store executes the vote INSERT and query() resolves.
ExecVoteInsert(i) ==
    /\ reqs[i].kind = "vote"
    /\ reqs[i].q1 = "pending"
    /\ votes' = Append(votes, VoteRow(votes, reqs[i].candidate, i))
    /\ reqs' = [reqs EXCEPT ![i].q1 = "ok"]
    /\ UNCHANGED <<system_logs, now, console>>

\* Mutant of VoteAwaited: the await is missing, the handler goes on while the
\* INSERT is still pending.
VoteAwaited_m(r, fails) ==
    IF fails THEN r.q1 = "pending" ELSE r.q1 \in {"pending", "ok"}

\* `await query(...)` of the vote INSERT lets the handler go on: the promise
\* has resolved, or (fails) pool.query calls back with an error and it rejects.
VoteAwaited(r, fails) == IF fails THEN r.q1 = "pending" ELSE r.q1 = "ok"

\* Mutant of IssuesAudit: the audit append is also made from the catch path.
IssuesAudit_m(r, fails) == ~SplitThrows(r.clientIp)

\* The handler reaches the audit append: the await did not throw, and
\* neither did the building of logMsg.
IssuesAudit(r, fails) == ~fails /\ ~SplitThrows(r.clientIp)

\* Mutant of VoteResponse: success is answered whatever happened.
VoteResponse_m(r, fails) == SuccessResponse

\* What the handler answers after the await: the end of the try block, or
\* the catch block.
VoteResponse(r, fails) ==
    IF IssuesAudit(r, fails) THEN SuccessResponse ELSE TransactionFailedResponse

\* The handler after the await: the rest of the try block, or the catch.
\* A failed statement has changed nothing in the store.
VoteResume(i, fails) ==
    LET r == reqs[i] IN
    /\ r.kind = "vote"
    /\ r.pc = "await"
    /\ VoteAwaited(r, fails)
    /\ reqs' = [reqs EXCEPT
          ![i].pc = "done",
          ![i].q1 = IF fails THEN "err" ELSE r.q1,
          ![i].q2 = IF IssuesAudit(r, fails) THEN "pending" ELSE "none",
          ![i].params = IF IssuesAudit(r, fails)
                        THEN [event_type |-> "VOTE_TX",
                              message |-> LogMsg(r.candidate, r.clientIp),
                              pod_id |-> r.pod]
                        ELSE NoParams,
          ![i].res = VoteResponse(r, fails)]
    /\ console' = IF VoteResponse(r, fails) = SuccessResponse THEN console
                  ELSE console \cup
                       {[pod |-> r.pod, req |-> i, text |-> "Transaction failed:"]}
    /\ UNCHANGED <<votes, system_logs, now>>

\* The store starts executing the audit INSERT: it reads its clock, which
\* may have advanced.
ExecAuditBegin(i) ==
    /\ reqs[i].kind = "vote"
    /\ reqs[i].q2 = "pending"
    /\ \E t \in {now, now + 1} :
          /\ now' = t
          /\ reqs' = [reqs EXCEPT ![i].q2 = "begun", ![i].ts = t]
    /\ UNCHANGED <<votes, system_logs, console>>

\* The store inserts the audit row and query() resolves; .catch has nothing
\* to do.
ExecAuditInsert(i) ==
    /\ reqs[i].kind = "vote"
    /\ reqs[i].q2 = "begun"
    /\ system_logs' = Append(system_logs,
                             LogRow(system_logs, reqs[i].params, reqs[i].ts, i))
    /\ reqs' = [reqs EXCEPT ![i].q2 = "ok"]
    /\ UNCHANGED <<votes, now, console>>

\* Mutant of AuditCatch: a vote whose audit append failed is taken back, its
\* row is deleted.
AuditCatch_m(i) ==
    /\ reqs[i].kind = "vote"
    /\ reqs[i].q2 \in {"pending", "begun"}
    /\ reqs' = [reqs EXCEPT ![i].q2 = "err"]
    /\ votes' = SelectSeq(votes, LAMBDA row : row.req # i)
    /\ console' = console \cup
          {[pod |-> reqs[i].pod, req |-> i, text |-> "Error"]}
    /\ UNCHANGED <<system_logs, now>>

\* The audit append rejects (no connection, or the statement failed) and
\* .catch(console.error) logs the error.
AuditCatch(i) ==
    /\ reqs[i].kind = "vote"
    /\ reqs[i].q2 \in {"pending", "begun"}
    /\ reqs' = [reqs EXCEPT ![i].q2 = "err"]
    /\ console' = console \cup
          {[pod |-> reqs[i].pod, req |-> i, text |-> "Error"]}
    /\ UNCHANGED <<votes, system_logs, now>>

\* ---------------------------------------------------- GET /api/live-data
\* Mutant of GetLiveData: the queries are awaited one after the other, the
\* tail query is not started with the tally query.
GetLiveData_m(pod) ==
    /\ pod = RoutedTo(Len(reqs) + 1)
    /\ reqs' = Append(reqs,
                  [NewRequest("live", pod, Undefined, <<>>) EXCEPT
                      !.acked = Acknowledged, !.votesAtStart = Len(votes)])
    /\ UNCHANGED <<votes, system_logs, now, console>>

\* app.get('/api/live-data'): both queries are started, then Promise.all
\* is awaited.
GetLiveData(pod) ==
    /\ pod = RoutedTo(Len(reqs) + 1)
    /\ reqs' = Append(reqs,
                  [NewRequest("live", pod, Undefined, <<>>) EXCEPT
                      !.q2 = "pending", !.acked = Acknowledged,
                      !.votesAtStart = Len(votes)])
    /\ UNCHANGED <<votes, system_logs, now, console>>

\* The store executes the tally query.
ExecTally(i) ==
    /\ reqs[i].kind = "live"
    /\ reqs[i].pc = "await"
    /\ reqs[i].q1 = "pending"
    /\ reqs' = [reqs EXCEPT ![i].q1 = "ok", ![i].voteResults = GroupCount(votes),
                            ![i].logsAtTally = Len(system_logs)]
    /\ UNCHANGED <<votes, system_logs, now, console>>

\* The store executes the tail query.
ExecTail(i) ==
    /\ reqs[i].kind = "live"
    /\ reqs[i].pc = "await"
    /\ reqs[i].q2 = "pending"
    /\ reqs' = [reqs EXCEPT ![i].q2 = "ok", ![i].logResults = TailQuery(system_logs)]
    /\ UNCHANGED <<votes, system_logs, now, console>>

\* Mutant of AllFulfilled: the handler goes on as soon as one query resolved.
AllFulfilled_m(r) == r.q1 = "ok" \/ r.q2 = "ok"

\* Promise.all([...]) fulfils: both queries resolved.
AllFulfilled(r) == r.q1 = "ok" /\ r.q2 = "ok"

\* The handler after the await, try block.
LiveResolve(i) ==
    LET r == reqs[i] IN
    /\ r.kind = "live"
    /\ r.pc = "await"
    /\ AllFulfilled(r)
    /\ reqs' = [reqs EXCEPT ![i].pc = "done",
                   ![i].res = LiveDataResponse(r.pod, r.voteResults, r.logResults)]
    /\ UNCHANGED <<votes, system_logs, now, console>>

\* Mutant of LiveReject: the catch block also records the failure as a row
\* of system_logs.
LiveReject_m(i, n) ==
    LET r == reqs[i] IN
    /\ r.kind = "live"
    /\ r.pc = "await"
    /\ \/ n = 1 /\ r.q1 = "pending" /\ reqs' = [reqs EXCEPT ![i].pc = "done",
                      ![i].q1 = "err", ![i].res = ConnectivityResponse]
       \/ n = 2 /\ r.q2 = "pending" /\ reqs' = [reqs EXCEPT ![i].pc = "done",
                      ![i].q2 = "err", ![i].res = ConnectivityResponse]
    /\ console' = console \cup {[pod |-> r.pod, req |-> i, text |-> "DB Error:"]}
    /\ system_logs' = Append(system_logs,
          LogRow(system_logs,
                 [event_type |-> "DB_ERROR", message |-> NoMsg, pod_id |-> r.pod],
                 now, i))
    /\ UNCHANGED <<votes, now>>

\* Query n of the two rejects, Promise.all rejects with it at once, and the
\* handler's catch block runs. The other query is not cancelled; it reads
\* only, and its result goes to a promise nobody awaits any more.
LiveReject(i, n) ==
    LET r == reqs[i] IN
    /\ r.kind = "live"
    /\ r.pc = "await"
    /\ \/ n = 1 /\ r.q1 = "pending" /\ reqs' = [reqs EXCEPT ![i].pc = "done",
                      ![i].q1 = "err", ![i].res = ConnectivityResponse]
       \/ n = 2 /\ r.q2 = "pending" /\ reqs' = [reqs EXCEPT ![i].pc = "done",
                      ![i].q2 = "err", ![i].res = ConnectivityResponse]
    /\ console' = console \cup {[pod |-> r.pod, req |-> i, text |-> "DB Error:"]}
    /\ UNCHANGED <<votes, system_logs, now>>

\* ------------------------------------------------------------------ spec
\* A request arrives at the replica it is routed to, while fewer than max
\* requests have arrived.
Arrive(max) ==
    \/ \E pod \in Pods, candidate \in CandidateInputs, origin \in OriginInputs :
          Len(reqs) < max /\ PostVote(pod, candidate, origin) /\ UNCHANGED pool
    \/ \E pod \in Pods :
          Len(reqs) < max /\ GetLiveData(pod) /\ UNCHANGED pool

\* The store executes a statement, a query settles, a handler goes on. The
\* requests of a run have fewer than connectionLimit queries in flight on a
\* replica, so none of them waits for a connection; a connection that cannot
\* be had is a query that fails. The pool by itself is the matter of SpecPool.
Step ==
    \/ \E i \in DOMAIN reqs : ExecVoteInsert(i) /\ UNCHANGED pool
    \/ \E i \in DOMAIN reqs, fails \in BOOLEAN : VoteResume(i, fails) /\ UNCHANGED pool
    \/ \E i \in DOMAIN reqs : ExecAuditBegin(i) /\ UNCHANGED pool
    \/ \E i \in DOMAIN reqs : ExecAuditInsert(i) /\ UNCHANGED pool
    \/ \E i \in DOMAIN reqs : AuditCatch(i) /\ UNCHANGED pool
    \/ \E i \in DOMAIN reqs : ExecTally(i) /\ UNCHANGED pool
    \/ \E i \in DOMAIN reqs : ExecTail(i) /\ UNCHANGED pool
    \/ \E i \in DOMAIN reqs : LiveResolve(i) /\ UNCHANGED pool
    \/ \E i \in DOMAIN reqs, n \in {1, 2} : LiveReject(i, n) /\ UNCHANGED pool

Next == Arrive(MaxReq) \/ Step

Spec == Init /\ [][Next]_vars

\* Runs of one more request: long enough for two votes and a snapshot.
NextLong == Arrive(MaxReq + 1) \/ Step

SpecLong == Init /\ [][NextLong]_vars

\* ------------------------------------------------ the pool of one replica
\* The queries submitted to the pool, and those that have settled.
Submitted ==
    pool.connecting + pool.running + pool.queue + pool.resolved + pool.rejected

Settled == pool.resolved + pool.rejected

\* The connections in use: being established for a query, or running one.
InUse == pool.connecting + pool.running

\* pool.getConnection for a query: a free connection is taken; or, below
\* connectionLimit, a new connection is opened; or (waitForConnections: true)
\* the query is queued, whatever the length of the queue (queueLimit: 0).
\* Nothing times a queued query out.
GetConnection(p) ==
    IF p.free > 0 THEN [p EXCEPT !.free = @ - 1, !.running = @ + 1]
    ELSE IF p.all < connectionLimit
         THEN [p EXCEPT !.all = @ + 1, !.connecting = @ + 1]
         ELSE [p EXCEPT !.queue = @ + 1, !.enqueued = @ + 1]

\* A connection is released when its query has ended: it goes to the query
\* at the head of the queue, or back to the free connections.
ReleaseConnection(p) ==
    IF p.queue > 0 THEN [p EXCEPT !.queue = @ - 1, !.running = @ + 1]
    ELSE [p EXCEPT !.free = @ + 1]

\* Mutant of RemoveConnection: the queue is not looked at when a connection
\* is dropped.
RemoveConnection_m(p) == [p EXCEPT !.all = @ - 1]

\* A connection that failed is dropped from the pool, and the query at the
\* head of the queue asks for a connection again.
RemoveConnection(p) ==
    LET q == [p EXCEPT !.all = @ - 1]
    IN  IF q.queue > 0 THEN GetConnection([q EXCEPT !.queue = @ - 1]) ELSE q

\* query(sql, params): pool.query asks for a connection.
PoolQuery ==
    /\ Submitted < MaxQueries
    /\ pool' = GetConnection(pool)
    /\ UNCHANGED <<votes, system_logs, now, reqs, console>>

\* A new connection is established and the statement is sent on it.
PoolConnected ==
    /\ pool.connecting > 0
    /\ pool' = [pool EXCEPT !.connecting = @ - 1, !.running = @ + 1]
    /\ UNCHANGED <<votes, system_logs, now, reqs, console>>

\* A new connection is refused, or is not established within connectTimeout:
\* pool.query calls back with the error and query() rejects.
PoolConnectFail ==
    /\ pool.connecting > 0
    /\ pool' = RemoveConnection([pool EXCEPT !.connecting = @ - 1,
                                              !.rejected = @ + 1])
    /\ UNCHANGED <<votes, system_logs, now, reqs, console>>

\* Mutant of PoolFinish: the connection of a statement that failed is not
\* released.
PoolFinish_m(fails) ==
    /\ pool.running > 0
    /\ pool' = IF fails
               THEN [pool EXCEPT !.running = @ - 1, !.rejected = @ + 1]
               ELSE ReleaseConnection([pool EXCEPT !.running = @ - 1,
                                                   !.resolved = @ + 1])
    /\ UNCHANGED <<votes, system_logs, now, reqs, console>>

\* The store answers a running statement, with rows or with an error:
\* pool.query releases the connection and calls back, query() resolves or
\* rejects.
PoolFinish(fails) ==
    /\ pool.running > 0
    /\ pool' = ReleaseConnection(
                  IF fails
                  THEN [pool EXCEPT !.running = @ - 1, !.rejected = @ + 1]
                  ELSE [pool EXCEPT !.running = @ - 1, !.resolved = @ + 1])
    /\ UNCHANGED <<votes, system_logs, now, reqs, console>>

\* An attempt to connect ends, one way or the other.
PoolConnectEnds == PoolConnected \/ PoolConnectFail

NextPool ==
    \/ PoolQuery
    \/ PoolConnected
    \/ PoolConnectFail
    \/ \E fails \in BOOLEAN : PoolFinish(fails)

\* The pool of one replica under up to MaxQueries queries. connectTimeout
\* ends every attempt to connect; nothing makes the store answer a running
\* statement, and no timeout is set for one.
InitPool == Init /\ votes = <<>>

SpecPool == InitPool /\ [][NextPool]_vars /\ WF_vars(PoolConnectEnds)

\* ---------------------------------------------------------------- claims
VoteReqs == {i \in DOMAIN reqs : reqs[i].kind = "vote"}

LiveReqs == {i \in DOMAIN reqs : reqs[i].kind = "live"}

\* The rows of a table that request i caused.
RowsOf(table, i) == {k \in DOMAIN table : table[k].req = i}

\* The votes for c that were in the store when the run started.
BaseCount(c) ==
    Cardinality({k \in DOMAIN votes : votes[k].req < 0 /\ votes[k].candidate = c})

\* The requests of the run that asked to vote for c.
Asked(c) == {i \in VoteReqs : reqs[i].candidate = c}

RECURSIVE SumCounts(_)
SumCounts(rows) ==
    IF rows = {} THEN 0
    ELSE LET r == CHOOSE x \in rows : TRUE
         IN  r.count + SumCounts(rows \ {r})

\* C1: a POST /vote whose candidate is not aws or azure (gcp, or none at
\* all) is answered 400 'Invalid candidate', issues no query, and no row of
\* either table comes from it: every row comes from a valid candidate.
C1_InvalidCandidateRejected ==
    /\ \A i \in VoteReqs :
          reqs[i].candidate \notin {"aws", "azure"} =>
             /\ reqs[i].res = InvalidCandidateResponse
             /\ reqs[i].q1 = "none" /\ reqs[i].q2 = "none"
             /\ RowsOf(votes, i) = {} /\ RowsOf(system_logs, i) = {}
    /\ \A k \in DOMAIN votes : votes[k].candidate \in {"aws", "azure"}

\* A gcp request and a request without candidate were both rejected, on a
\* store that holds votes.
C1_Witness ==
    /\ \E i \in VoteReqs :
          reqs[i].candidate = "gcp" /\ reqs[i].res = InvalidCandidateResponse
    /\ \E i \in VoteReqs :
          reqs[i].candidate = Undefined /\ reqs[i].res = InvalidCandidateResponse
    /\ votes # <<>>

\* C2 (as claimed): a POST /vote with a valid candidate is answered success
\* exactly when its vote row was persisted, and 'Transaction failed' only
\* when the vote INSERT failed, whatever the origin of the request.
C2_AckIffPersisted ==
    \A i \in VoteReqs :
       (reqs[i].candidate \in {"aws", "azure"} /\ reqs[i].pc = "done") =>
          /\ reqs[i].res = SuccessResponse <=> RowsOf(votes, i) # {}
          /\ reqs[i].res = TransactionFailedResponse => reqs[i].q1 = "err"

\* C3 (as claimed): once the vote INSERT of a request has succeeded, the
\* request is answered success, whatever becomes of the audit append.
C3_AckAfterInsert ==
    \A i \in VoteReqs :
       (reqs[i].q1 = "ok" /\ reqs[i].pc = "done") => reqs[i].res = SuccessResponse

\* C4: a request whose vote INSERT failed is answered 'Transaction failed'
\* and issues no audit append; a request with no vote row in the store has
\* no audit row and no audit append in flight.
C4_FailedInsertNoAudit ==
    \A i \in VoteReqs :
       /\ reqs[i].q1 = "err" =>
             /\ reqs[i].res = TransactionFailedResponse
             /\ reqs[i].q2 = "none" /\ reqs[i].params = NoParams
       /\ RowsOf(votes, i) = {} =>
             /\ RowsOf(system_logs, i) = {}
             /\ reqs[i].q2 = "none"

\* A vote INSERT failed for a request with a known origin, while another
\* request's vote was audited.
C4_Witness ==
    \E i \in VoteReqs :
       /\ reqs[i].q1 = "err" /\ reqs[i].pc = "done"
       /\ reqs[i].clientIp # <<>>
       /\ \E j \in VoteReqs : RowsOf(system_logs, j) # {}

\* C5: every audit row is a VOTE_TX row whose request has a vote row in the
\* store (so the vote row was there first); a request has at most one vote
\* row and at most one audit row; so there are never more audit rows than
\* vote rows.
C5_AuditMatchesVote ==
    LET voted == {votes[k].req : k \in DOMAIN votes}
        audited == {system_logs[k].req : k \in DOMAIN system_logs}
    IN  /\ \A k \in DOMAIN system_logs : system_logs[k].event_type = "VOTE_TX"
        /\ audited \subseteq voted
        /\ Cardinality(voted) = Len(votes)
        /\ Cardinality(audited) = Len(system_logs)
        /\ Len(system_logs) <= Len(votes)

\* One replica has audited its vote; the vote of the other replica, inserted
\* earlier, has no audit row because its audit append failed.
C5_Witness ==
    /\ \E i, j \in VoteReqs :
          /\ reqs[i].pod # reqs[j].pod
          /\ RowsOf(system_logs, i) # {}
          /\ reqs[j].q2 = "err" /\ RowsOf(votes, j) # {}
          /\ \E a \in RowsOf(votes, i), b \in RowsOf(votes, j) : b < a
    /\ Len(system_logs) < Len(votes)

\* C6: when every request has completed and no vote INSERT failed, the
\* tally counts every vote asked for: each candidate's count is what the
\* store held at the start plus the requests for that candidate.
C6_NoLostVotes ==
    ((\A i \in DOMAIN reqs : ~IsOpen(reqs[i])) /\
     (\A i \in VoteReqs : reqs[i].candidate \in {"aws", "azure"} => reqs[i].q1 = "ok"))
    => LET tally == ProcessVotes(GroupCount(votes)) IN
       /\ tally.aws = BaseCount("aws") + Cardinality(Asked("aws"))
       /\ tally.azure = BaseCount("azure") + Cardinality(Asked("azure"))
       /\ tally.total = Len(votes)

\* An aws and an azure request on different replicas overlapped (the later
\* request's row was inserted first), all is completed, the store started empty.
C6_Witness ==
    /\ \A i \in DOMAIN reqs : ~IsOpen(reqs[i])
    /\ \A i \in VoteReqs : reqs[i].q1 = "ok"
    /\ BaseCount("aws") = 0 /\ BaseCount("azure") = 0
    /\ \E i, j \in VoteReqs :
          /\ i < j /\ reqs[i].candidate # reqs[j].candidate
          /\ reqs[i].pod # reqs[j].pod
          /\ \E a \in RowsOf(votes, i), b \in RowsOf(votes, j) : b < a

\* C7: a snapshot started after a vote was acknowledged counts that vote: the
\* count it returns for a candidate is at least the votes for the candidate
\* in the store at the start plus those acknowledged before the snapshot came.
C7_AckedVoteVisible ==
    \A s \in LiveReqs :
       reqs[s].res.data =>
          \A c \in Candidates :
             reqs[s].res.votes[c] >=
                BaseCount(c) + Cardinality(reqs[s].acked \cap Asked(c))

\* A snapshot on one replica answered after a vote acknowledged on the other.
C7_Witness ==
    \E s \in LiveReqs :
       /\ reqs[s].res.data
       /\ \E j \in reqs[s].acked : reqs[j].pod # reqs[s].pod
       /\ BaseCount("aws") = 0

\* C8: in every successful snapshot response, total is the sum of the two
\* counts of the response, and the sum of the counts the tally query returned.
C8_TotalIsSum ==
    \A s \in LiveReqs :
       reqs[s].res.data =>
          /\ reqs[s].res.votes.total = reqs[s].res.votes.aws + reqs[s].res.votes.azure
          /\ reqs[s].res.votes.total = SumCounts(reqs[s].voteResults)

\* A payload with different, non-zero counts for the two candidates.
C8_Witness ==
    \E s \in LiveReqs :
       /\ reqs[s].res.data
       /\ reqs[s].res.votes.aws > 0 /\ reqs[s].res.votes.azure > 0
       /\ reqs[s].res.votes.aws # reqs[s].res.votes.azure

\* C9 (as claimed): the audit entries of a snapshot are at most TailLimit and
\* non-increasing in created_at, the timestamp the store assigned.
C9_TailByTimestamp ==
    \A s \in LiveReqs :
       LET logs == reqs[s].res.logs IN
       /\ Len(logs) <= TailLimit
       /\ \A k \in 1..(Len(logs) - 1) : logs[k].created_at >= logs[k + 1].created_at

\* The tail a query has returned: at most TailLimit rows of the store, ids
\* descending without a gap, and as many as there were rows up to the first.
C9_TailShape ==
    \A s \in LiveReqs :
       LET logs == reqs[s].logResults IN
       /\ Len(logs) <= TailLimit
       /\ \A k \in DOMAIN logs :
             /\ logs[k].id \in DOMAIN system_logs
             /\ system_logs[logs[k].id] = logs[k]
             /\ logs[k].id = logs[1].id - (k - 1)
       /\ logs # <<>> => Len(logs) = Min(TailLimit, logs[1].id)
       /\ reqs[s].res.data => reqs[s].res.logs = logs

\* When the tail query executes, its first row is the newest row of the store.
C9_TailFresh ==
    \A s \in LiveReqs :
       (reqs[s].q2 = "pending" /\ s \in DOMAIN reqs' /\ reqs'[s].q2 = "ok") =>
          LET logs == reqs'[s].logResults IN
          IF system_logs = <<>> THEN logs = <<>>
          ELSE logs # <<>> /\ logs[1].id = Len(system_logs)

\* C9 (amended): the audit entries of a snapshot are the min(TailLimit, n)
\* rows with the highest ids among the n rows of the store when the query
\* ran, in descending id order (the order of insertion, not of created_at).
C9_TailByIdDescending == []C9_TailShape /\ [][C9_TailFresh]_vars

\* A response holds TailLimit entries, fewer than the store had, and the
\* newest two come from different replicas.
C9_Witness ==
    \E s \in LiveReqs :
       LET logs == reqs[s].res.logs IN
       /\ reqs[s].res.data
       /\ Len(logs) = TailLimit
       /\ logs[TailLimit].id > 1
       /\ logs[1].pod_id # logs[2].pod_id
       /\ logs[1].req > 0 /\ logs[2].req > 0

\* C10: a snapshot answers with a payload only when both of its queries
\* resolved; when one rejected it answers the connectivity error, which
\* carries neither the tally nor the audit window; before that, nothing.
C10_AllOrNothing ==
    \A s \in LiveReqs :
       /\ reqs[s].res.data =>
             /\ reqs[s].q1 = "ok" /\ reqs[s].q2 = "ok"
             /\ reqs[s].res.votes = ProcessVotes(reqs[s].voteResults)
             /\ reqs[s].res.logs = reqs[s].logResults
       /\ (reqs[s].q1 = "err" \/ reqs[s].q2 = "err") =>
             reqs[s].res = ConnectivityResponse
       /\ reqs[s].pc = "await" => reqs[s].res = NoResponse
       /\ reqs[s].pc = "done" => reqs[s].res \in
             {ConnectivityResponse,
              LiveDataResponse(reqs[s].pod, reqs[s].voteResults, reqs[s].logResults)}

\* The tally query resolved with votes counted, the tail query rejected.
C10_Witness ==
    \E s \in LiveReqs :
       /\ reqs[s].q1 = "ok" /\ reqs[s].voteResults # {}
       /\ reqs[s].q2 = "err"
       /\ reqs[s].res = ConnectivityResponse

\* C11: two successful snapshots return the same counts and the same total
\* when no vote row was inserted from the moment the first of them came until
\* (at least) the moment the second was answered, whatever else happened in
\* between (audit appends, failed votes, the two replicas).
C11_ReadsIdempotent ==
    \A s1, s2 \in LiveReqs :
       (/\ s1 < s2
        /\ reqs[s1].res.data /\ reqs[s2].res.data
        /\ Len(votes) = reqs[s1].votesAtStart)
       => reqs[s1].res.votes = reqs[s2].res.votes

\* Two snapshots on different replicas counted the same votes, one of them a
\* vote of this run, although an audit row was appended between their tail
\* queries.
C11_Witness ==
    \E s1, s2 \in LiveReqs :
       /\ s1 < s2
       /\ reqs[s1].res.data /\ reqs[s2].res.data
       /\ Len(votes) = reqs[s1].votesAtStart
       /\ reqs[s1].pod # reqs[s2].pod
       /\ \E k \in DOMAIN votes : votes[k].req > 0
       /\ Len(reqs[s1].res.logs) # Len(reqs[s2].res.logs)

\* The count the tally query would return for c on the store as it is.
StoredCount(c) == ProcessVotes(GroupCount(votes))[c]

\* The requests for c whose vote INSERT has resolved.
Persisted(c) == {i \in Asked(c) : reqs[i].q1 = "ok"}

\* Each acknowledged request has exactly one vote row, for its candidate, and
\* a candidate's count is what the store held at the start plus one per
\* request for it whose INSERT resolved: the same origin voting k times
\* counts k times.
C12_OnePerVote ==
    /\ \A i \in Acknowledged :
          /\ Cardinality(RowsOf(votes, i)) = 1
          /\ \A k \in RowsOf(votes, i) : votes[k].candidate = reqs[i].candidate
    /\ \A c \in Candidates :
          /\ Acknowledged \cap Asked(c) \subseteq Persisted(c)
          /\ StoredCount(c) = BaseCount(c) + Cardinality(Persisted(c))

\* One vote INSERT raises the count of its candidate by one and leaves the
\* count of the other candidate as it was.
C12_OneAtATime ==
    \A i \in VoteReqs :
       (reqs[i].q1 = "pending" /\ reqs'[i].q1 = "ok") =>
          \A c \in Candidates :
             StoredCount(c)' =
                StoredCount(c) + (IF c = reqs[i].candidate THEN 1 ELSE 0)

\* C12: every acknowledged vote adds exactly one vote row, for its candidate,
\* and changes no other count; votes are not deduplicated, so k acknowledged
\* votes of one origin for one candidate raise its count by exactly k.
C12_ExactlyOnePerVote == []C12_OnePerVote /\ [][C12_OneAtATime]_vars

\* Three aws votes of the same origin, acknowledged and audited one after
\* the other on a store that started empty: the tally is aws 3, azure 0,
\* total 3.
C12_Witness ==
    /\ Len(reqs) = 3 /\ Acknowledged = {1, 2, 3}
    /\ \A i \in 1..3 :
          /\ reqs[i].candidate = "aws" /\ reqs[i].clientIp = reqs[1].clientIp
          /\ reqs[i].q2 = "ok"
    /\ Len(votes) = 3 /\ Len(system_logs) = 3
    /\ \A k \in 1..3 : votes[k].req = k /\ system_logs[k].req = k
    /\ ProcessVotes(GroupCount(votes)) = [aws |-> 3, azure |-> 0, total |-> 3]

\* Every vote row of the run comes from a POST /vote request whose candidate
\* passed the validation.
C13_RowsFromValidVotes ==
    \A k \in DOMAIN votes :
       votes[k].req > 0 =>
          /\ votes[k].req \in VoteReqs
          /\ reqs[votes[k].req].candidate \in {"aws", "azure"}
          /\ reqs[votes[k].req].candidate = votes[k].candidate

\* A step keeps every vote row as it is; it adds at most one row, at the
\* end, and only as the vote INSERT of a request; no count goes down.
C13_RowsKept ==
    /\ Len(votes') \in {Len(votes), Len(votes) + 1}
    /\ \A k \in DOMAIN votes : votes'[k] = votes[k]
    /\ Len(votes') = Len(votes) + 1 =>
          LET row == votes'[Len(votes')] IN
          /\ row.req \in VoteReqs
          /\ reqs[row.req].q1 = "pending" /\ reqs'[row.req].q1 = "ok"
    /\ votes' # votes => \A c \in Candidates : StoredCount(c)' >= StoredCount(c)

\* C13: vote rows are immutable: no operation changes or deletes a vote row,
\* no candidate's stored count ever goes down, and a vote row is created only
\* by the INSERT of a POST /vote whose candidate was validated.
C13_VotesImmutable == []C13_RowsFromValidVotes /\ [][C13_RowsKept]_vars

\* The store kept the rows it started with and the rows of two votes that
\* ended badly: one whose audit append failed, one answered 'Transaction
\* failed' after its INSERT.
C13_Witness ==
    /\ BaseCount("aws") > 0
    /\ \E i, j \in VoteReqs :
          /\ reqs[i].q2 = "err" /\ RowsOf(votes, i) # {}
          /\ reqs[j].res = TransactionFailedResponse /\ RowsOf(votes, j) # {}

\* C16 (as claimed): when the vote INSERT of a request succeeded and its
\* audit row was not created (the append failed, or was never issued), the
\* replica's console holds an error for the request and the caller was
\* answered success, with nothing about the fault.
C16_AuditFaultLoggedOnly ==
    \A i \in VoteReqs :
       (reqs[i].q1 = "ok" /\ reqs[i].pc = "done" /\ reqs[i].q2 \in {"err", "none"}) =>
          /\ \E e \in console : e.req = i /\ e.pod = reqs[i].pod
          /\ reqs[i].res = SuccessResponse

\* C17: a snapshot whose two queries resolved is answered with a payload
\* whatever the tally query returned; a candidate without a row in the tally
\* is reported with count 0, the others with their count, total being the
\* sum; on an empty votes table the tally is aws 0, azure 0, total 0.
C17_EmptyIsSuccess ==
    \A s \in LiveReqs :
       LET r == reqs[s]
           present == {x.candidate : x \in r.voteResults}
       IN  /\ (r.pc = "await" /\ r.q1 = "ok" /\ r.q2 = "ok") => ENABLED LiveResolve(s)
           /\ (r.pc = "done" /\ r.q1 = "ok" /\ r.q2 = "ok") =>
                 /\ r.res.data /\ r.res.code = 200
                 /\ \A c \in Candidates \ present : r.res.votes[c] = 0
                 /\ \A x \in r.voteResults : r.res.votes[x.candidate] = x.count
                 /\ r.voteResults = {} => r.res.votes = ZeroVotes

\* A snapshot of an empty store was answered 200 with zero counts and no
\* audit entry.
C17_Witness ==
    \E s \in LiveReqs :
       /\ votes = <<>>
       /\ reqs[s].voteResults = {}
       /\ reqs[s].res.data /\ reqs[s].res.code = 200
       /\ reqs[s].res.votes = ZeroVotes /\ reqs[s].res.logs = <<>>

\* The window of snapshot s holds the audit entry of a vote that its tally
\* does not count: the tally query ran before the vote INSERT, the tail query
\* after the audit INSERT.
WindowAheadOfTally(s) ==
    /\ reqs[s].res.data
    /\ \E k \in DOMAIN reqs[s].res.logs :
          LET i == reqs[s].res.logs[k].req IN
          /\ i > 0
          /\ \A v \in RowsOf(votes, i) : votes[v].id > reqs[s].res.votes.total

\* The tally of snapshot s counts a vote whose audit entry, in the store
\* already when the tally query ran, is not in its window, which is not
\* full: the tail query ran before the audit INSERT, the tally query after.
TallyAheadOfWindow(s) ==
    /\ reqs[s].res.data
    /\ Len(reqs[s].res.logs) < TailLimit
    /\ \E i \in VoteReqs :
          /\ \E v \in RowsOf(votes, i) : votes[v].id <= reqs[s].res.votes.total
          /\ \E a \in RowsOf(system_logs, i) : a <= reqs[s].logsAtTally
          /\ \A k \in DOMAIN reqs[s].res.logs : reqs[s].res.logs[k].req # i

\* C18: a snapshot that awaits has started both of its queries, and while
\* both are pending the store may execute either of them next; each result
\* is a view of its own table at a moment of its own between the arrival of
\* the request and now, so the two need not agree (C18_Witness has both
\* disagreements).
C18_NotPointInTime ==
    \A s \in LiveReqs :
       LET r == reqs[s] IN
       /\ r.pc = "await" => r.q1 # "none" /\ r.q2 # "none"
       /\ (r.pc = "await" /\ r.q1 = "pending" /\ r.q2 = "pending") =>
             ENABLED ExecTally(s) /\ ENABLED ExecTail(s)
       /\ r.q1 = "ok" =>
             /\ r.votesAtStart <= SumCounts(r.voteResults)
             /\ SumCounts(r.voteResults) <= Len(votes)
             /\ r.logsAtTally <= Len(system_logs)
       /\ r.q2 = "ok" => Len(r.logResults) <= Len(system_logs)

\* One snapshot was answered with a window ahead of its tally, another with
\* a tally ahead of its window.
C18_Witness ==
    \E s1, s2 \in LiveReqs : WindowAheadOfTally(s1) /\ TallyAheadOfWindow(s2)

\* C19: every audit row of the run is a VOTE_TX row whose pod_id is the
\* replica that handled the request and persisted its vote, and whose message
\* names the candidate of that request; so are the parameters of an audit
\* append in flight. No interleaving of the replicas changes that.
C19_AuditNamesItsReplica ==
    /\ \A k \in DOMAIN system_logs :
          LET row == system_logs[k] IN
          row.req > 0 =>
             /\ row.req \in VoteReqs
             /\ row.pod_id = reqs[row.req].pod
             /\ row.pod_id = RoutedTo(row.req)
             /\ row.event_type = "VOTE_TX"
             /\ row.message = LogMsg(reqs[row.req].candidate, reqs[row.req].clientIp)
             /\ RowsOf(votes, row.req) # {}
    /\ \A i \in VoteReqs :
          reqs[i].q2 # "none" =>
             /\ reqs[i].params.pod_id = reqs[i].pod
             /\ reqs[i].params.event_type = "VOTE_TX"

\* The two replicas handled overlapping votes: the audit rows are in the
\* opposite order of the vote rows, and each names its own replica.
C19_Witness ==
    \E i, j \in VoteReqs :
       /\ reqs[i].pod = "pod-a" /\ reqs[j].pod = "pod-b"
       /\ \E a \in RowsOf(system_logs, i), b \in RowsOf(system_logs, j) :
             /\ b < a
             /\ system_logs[a].pod_id = "pod-a" /\ system_logs[b].pod_id = "pod-b"
       /\ \E a \in RowsOf(votes, i), b \in RowsOf(votes, j) : a < b

\* No row of either table comes from a snapshot request.
C20_NoRowFromSnapshot ==
    /\ \A k \in DOMAIN votes : votes[k].req \notin LiveReqs
    /\ \A k \in DOMAIN system_logs : system_logs[k].req \notin LiveReqs

\* A step of a snapshot request (it arrives, one of its queries executes or
\* rejects, it is answered) leaves both tables as they are.
C20_SnapshotStepReadsOnly ==
    (\E s \in DOMAIN reqs' :
        /\ reqs'[s].kind = "live"
        /\ s \in DOMAIN reqs => reqs'[s] # reqs[s])
    => UNCHANGED <<votes, system_logs>>

\* C20: GET /api/live-data is read-only: whether it is answered with a
\* payload or with the connectivity error, none of its steps changes a vote
\* row or an audit row, and it appends no audit entry of its own.
C20_SnapshotReadOnly == []C20_NoRowFromSnapshot /\ [][C20_SnapshotStepReadsOnly]_vars

\* One snapshot was answered with a payload and one with the connectivity
\* error, and the store holds exactly the rows it held when they came.
C20_Witness ==
    \E s1, s2 \in LiveReqs :
       /\ reqs[s1].res.data /\ reqs[s2].res = ConnectivityResponse
       /\ votes # <<>> /\ system_logs # <<>>
       /\ Len(votes) = reqs[s1].votesAtStart /\ Len(votes) = reqs[s2].votesAtStart
       /\ Len(system_logs) = Len(reqs[s1].res.logs)
       /\ votes = PreloadVotes(Len(votes)) /\ system_logs = PreloadLogs(Len(system_logs))

\* C14 (as claimed): acquiring a connection never blocks for ever: a query
\* that waits because all connections are busy gets a connection or fails
\* with a connectivity fault, so the queue of a pool that is given no more
\* queries empties.
C14_NoQueryWaitsForever == (pool.queue > 0) ~> (pool.queue = 0)

\* No query is queued for ever, and every query settles.
AllSettle ==
    /\ (pool.queue > 0) ~> (pool.queue = 0)
    /\ \A n \in 1..MaxQueries : (Submitted >= n) ~> (Settled >= n)

\* A query leaves the queue only in a step that ends another query, whose
\* place it takes; no step rejects a query that is queued.
LeavesQueueByHandover ==
    pool'.queue < pool.queue =>
       /\ pool'.queue = pool.queue - 1
       /\ Settled' = Settled + 1
       /\ InUse' = InUse

\* C14 (amended): what is bounded is the establishing of a connection: every
\* attempt to connect ends, with a connection or with a connectivity fault.
\* A query queued behind connectionLimit busy connections has no bound: it
\* leaves the queue only when another query ends, and it is never rejected
\* for waiting. So every query settles provided the store keeps ending the
\* statements that run.
C14_BoundedConnectOnly ==
    /\ (pool.connecting > 0) ~> (pool.connecting = 0)
    /\ [][LeavesQueueByHandover]_vars
    /\ ([]<>(pool.running = 0)) => AllSettle

\* Queries have waited behind connectionLimit running statements, attempts
\* to connect have failed, and every query has settled.
C14_Witness ==
    /\ pool.enqueued = MaxQueries - connectionLimit
    /\ pool.rejected > 0 /\ pool.all < connectionLimit
    /\ Settled = MaxQueries

\* The pool holds at most connectionLimit connections, each free, being
\* established or running a statement; queries wait only while all
\* connectionLimit connections are in use; when no query is in flight every
\* connection is back among the free ones.
C15_PoolBounded ==
    /\ pool.all <= connectionLimit
    /\ InUse <= connectionLimit
    /\ pool.all = pool.free + InUse
    /\ pool.free >= 0 /\ pool.queue >= 0
    /\ pool.queue > 0 => (InUse = connectionLimit /\ pool.free = 0)
    /\ InUse = 0 => pool.free = pool.all

\* A query submitted while connectionLimit connections are in use is queued,
\* not rejected; a query ends by giving its connection to the head of the
\* queue, or to the free connections, whether it resolved or rejected.
C15_QueuedThenServed ==
    /\ (Submitted' = Submitted + 1 /\ InUse = connectionLimit) =>
          /\ pool'.queue = pool.queue + 1
          /\ Settled' = Settled /\ InUse' = InUse
    /\ (pool'.running < pool.running) =>
          /\ Settled' = Settled + 1
          /\ pool.queue = 0 => pool'.free = pool.free + 1
    /\ LeavesQueueByHandover

\* C15: one replica never has more than connectionLimit (10) connections in
\* use; a query issued while all of them are in use is queued, not rejected,
\* and runs when a connection is released; every query gives its connection
\* back, whether it succeeded or failed.
C15_AtMostKConnections == []C15_PoolBounded /\ [][C15_QueuedThenServed]_vars

\* Two queries have waited while ten statements ran; statements have
\* resolved and statements have failed; all twelve queries have settled and
\* the ten connections are free.
C15_Witness ==
    /\ pool.enqueued = MaxQueries - connectionLimit
    /\ pool.resolved > 0 /\ pool.rejected > 0
    /\ Settled = MaxQueries
    /\ pool.free = connectionLimit /\ pool.all = connectionLimit

====
